---- MODULE Spec2Model ----
(***************************************************************************)
(* A model of geqo's closed-form circuit generators and of the recursive   *)
(* multi-controlled X synthesis (src/src/geqo/algorithms/algorithms.py).   *)
(*                                                                         *)
(* Python values are modelled as follows:                                  *)
(*   - a list is a TLA+ sequence (1-based) whose elements keep their       *)
(*     Python values, so list(range(n)) is <<0, 1, ..., n-1>>;             *)
(*   - a str is a TLA+ string, + is \o;                                    *)
(*   - an object is a record with a "kind" field (its class) and one       *)
(*     field per attribute; isinstance(x, C) is x.kind = "C";              *)
(*   - a call either returns a value or raises:                            *)
(*     [tag |-> "return", value |-> v] or [tag |-> "raise", exc |-> e].    *)
(***************************************************************************)
EXTENDS Integers, Sequences, FiniteSets, TLC

VARIABLES
    orig,            \* the operation object as it was constructed
    cur,             \* the object reached from orig by a chain of getInverse()
    depth,           \* the number of getInverse() calls that returned
    call,            \* the name of the last method called on cur
    other,           \* the right operand of the last ==
    res,             \* the outcome of the last call
    numberControls,  \* the argument of controlledXGate
    cx,              \* the outcome of controlledXGate(numberControls)
    phase,           \* where the client of controlledXGate is
    bits0,           \* the basis state the returned circuit was started on
    bits,            \* the basis state after ip-1 triples
    ip               \* the index of the next triple to execute

vars == <<orig, cur, depth, call, other, res,
          numberControls, cx, phase, bits0, bits, ip>>

opVars == <<orig, cur, depth, call, other, res>>
cxVars == <<numberControls, cx, phase, bits0, bits, ip>>

(***************************************************************************)
(* Bounds of the model.                                                    *)
(***************************************************************************)
MaxQubits == 3
MaxInverse == 2
MaxControls == 5

Prefixes == {"", "pre"}
Names == {"a", "b"}

(***************************************************************************)
(* Python built-ins.                                                       *)
(***************************************************************************)
Return(v) == [tag |-> "return", value |-> v]
Raise(e) == [tag |-> "raise", exc |-> e]
NoResult == [tag |-> "none"]
NoObject == [kind |-> "None"]

\* list(range(n))
Range(n) == [i \in 1..n |-> i - 1]

\* [v] * n : the empty list when n <= 0
Repeat(v, n) == [i \in 1..n |-> v]

\* x in list
Contains(list, x) == \E i \in 1..Len(list) : list[i] = x

\* list.index(x) : the first position (0-based) holding x, ValueError if none
ListIndex(list, x) ==
    IF Contains(list, x)
    THEN Return((CHOOSE i \in 1..Len(list) :
                    /\ list[i] = x
                    /\ \A j \in 1..(i - 1) : list[j] # x) - 1)
    ELSE Raise("ValueError")

\* list[:-1] : all but the last element, the empty list of an empty list
AllButLast(list) == IF Len(list) = 0 THEN <<>> ELSE SubSeq(list, 1, Len(list) - 1)

\* list[-1] : the last element, IndexError on an empty list
LastItem(list) ==
    IF Len(list) = 0 THEN Raise("IndexError") ELSE Return(list[Len(list)])

Digit == <<"0", "1", "2", "3", "4", "5", "6", "7", "8", "9">>

\* str(j) for an int j >= 0
RECURSIVE str(_)
str(j) == IF j < 10 THEN Digit[j + 1] ELSE str(j \div 10) \o Digit[(j % 10) + 1]

(***************************************************************************)
(* Gates and containers of the other packages of the repository.           *)
(***************************************************************************)
Hadamard == [kind |-> "Hadamard"]
PauliX == [kind |-> "PauliX"]
SwapQubits == [kind |-> "SwapQubits"]
Phase(name) == [kind |-> "Phase", name |-> name]
InversePhase(name) == [kind |-> "InversePhase", name |-> name]
Rx(name) == [kind |-> "Rx", name |-> name]
InverseRx(name) == [kind |-> "InverseRx", name |-> name]
Ry(name) == [kind |-> "Ry", name |-> name]
InverseRy(name) == [kind |-> "InverseRy", name |-> name]
Toffoli(namePrefix) == [kind |-> "Toffoli", nameSpacePrefix |-> namePrefix]
QuantumControl(onoff, qop) == [kind |-> "QuantumControl", onoff |-> onoff, qop |-> qop]

\* Sequence(bits, qubits, gatesAndTargets)
Sequence(bitList, qubitList, gatesAndTargets) ==
    [kind |-> "Sequence", bits |-> bitList, qubits |-> qubitList,
     gatesAndTargets |-> gatesAndTargets]

(***************************************************************************)
(* class PermuteQubits                                                     *)
(***************************************************************************)
PermuteQubits(targetOrder) == [kind |-> "PermuteQubits", targetOrder |-> targetOrder]

PermuteQubits_eq(self, o) ==
    IF o.kind # "PermuteQubits" THEN FALSE
    ELSE self.targetOrder = o.targetOrder

\* A slip: the loop copies targetOrder[x] instead of looking x up.
PermuteQubits_getInverse_loop_copy(self, newOrder, x) ==
    IF \E y \in 0..(Len(self.targetOrder) - 1) : ~Contains(self.targetOrder, y)
    THEN Raise("ValueError")
    ELSE Return(self.targetOrder)

\* for x in range(len(targetOrder)): newOrder.append(targetOrder.index(x))
RECURSIVE PermuteQubits_getInverse_loop(_, _, _)
PermuteQubits_getInverse_loop(self, newOrder, x) ==
    IF x >= Len(self.targetOrder) THEN Return(newOrder)
    ELSE LET i == ListIndex(self.targetOrder, x)
         IN  IF i.tag = "raise" THEN i
             ELSE PermuteQubits_getInverse_loop(self, Append(newOrder, i.value), x + 1)

PermuteQubits_getInverse(self) ==
    LET newOrder == PermuteQubits_getInverse_loop(self, <<>>, 0)
    IN  IF newOrder.tag = "raise" THEN newOrder
        ELSE Return(PermuteQubits(newOrder.value))

PermuteQubits_getNumberQubits(self) == Len(self.targetOrder)

PermuteQubits_getEquivalentSequence(self) ==
    LET numberQubits == PermuteQubits_getNumberQubits(self)
        allQubits == Range(numberQubits)
    IN  Return(Sequence(<<>>, allQubits, << <<self, allQubits>> >>))

PermuteQubits_getNumberClassicalBits(self) == 0

\* A slip: the permutation reports a decomposition as the other classes do.
PermuteQubits_hasDecomposition_asOthers(self) == TRUE

PermuteQubits_hasDecomposition(self) == FALSE

(***************************************************************************)
(* class QubitReversal                                                     *)
(***************************************************************************)
QubitReversal(numberQubits) == [kind |-> "QubitReversal", numberQubits |-> numberQubits]

QubitReversal_eq(self, o) ==
    IF o.kind # "QubitReversal" THEN FALSE
    ELSE self.numberQubits = o.numberQubits

QubitReversal_getInverse(self) == Return(self)

QubitReversal_getNumberQubits(self) == self.numberQubits

\* A slip: the loop runs to the rounded-up half, so that for an odd number
\* of qubits the middle qubit is swapped with itself.
RECURSIVE QubitReversal_loop_roundUp(_, _, _)
QubitReversal_loop_roundUp(seq, numberQubits, i) ==
    IF i >= (numberQubits + 1) \div 2 THEN seq
    ELSE QubitReversal_loop_roundUp(
             Append(seq, <<SwapQubits, <<i, numberQubits - i - 1>> >>),
             numberQubits, i + 1)

\* for i in range(numberQubits // 2): seq.append((SwapQubits(), [i, numberQubits - i - 1]))
RECURSIVE QubitReversal_loop(_, _, _)
QubitReversal_loop(seq, numberQubits, i) ==
    IF i >= numberQubits \div 2 THEN seq
    ELSE QubitReversal_loop(
             Append(seq, <<SwapQubits, <<i, numberQubits - i - 1>> >>),
             numberQubits, i + 1)

QubitReversal_getEquivalentSequence(self) ==
    LET numberQubits == QubitReversal_getNumberQubits(self)
        allQubits == Range(numberQubits)
    IN  Return(Sequence(<<>>, allQubits, QubitReversal_loop(<<>>, numberQubits, 0)))

QubitReversal_getNumberClassicalBits(self) == 0

QubitReversal_hasDecomposition(self) == TRUE

(***************************************************************************)
(* class QFT                                                               *)
(***************************************************************************)
QFT(numberQubits, nameSpacePrefix) ==
    [kind |-> "QFT", numberQubits |-> numberQubits, nameSpacePrefix |-> nameSpacePrefix]

QFT_eq(self, o) ==
    IF o.kind # "QFT" THEN FALSE
    ELSE /\ self.numberQubits = o.numberQubits
         /\ self.nameSpacePrefix = o.nameSpacePrefix

\* A slip: the inner QFT is built with the default name space prefix.
InverseQFT_defaultPrefix(numberQubits, nameSpacePrefix) ==
    [kind |-> "InverseQFT", qft |-> QFT(numberQubits, ""),
     nameSpacePrefix |-> nameSpacePrefix]

\* InverseQFT.__init__ : self.qft = QFT(numberQubits, nameSpacePrefix)
InverseQFT(numberQubits, nameSpacePrefix) ==
    [kind |-> "InverseQFT", qft |-> QFT(numberQubits, nameSpacePrefix),
     nameSpacePrefix |-> nameSpacePrefix]

\* A slip: the inverse is built with the default name space prefix.
QFT_getInverse_noPrefix(self) == Return(InverseQFT(self.numberQubits, ""))

QFT_getInverse(self) == Return(InverseQFT(self.numberQubits, self.nameSpacePrefix))

\* A slip: the phase is named after the control qubit i + j, not the distance j.
RECURSIVE QFT_phaseLoop_absName(_, _, _, _, _)
QFT_phaseLoop_absName(seq, self, n, i, j) ==
    IF j >= n - i THEN seq
    ELSE QFT_phaseLoop_absName(
             Append(seq, <<QuantumControl(<<1>>, Phase(self.nameSpacePrefix \o "Ph" \o str(i + j))),
                           <<i + j, i>> >>),
             self, n, i, j + 1)

\* A slip: the controlling qubit of each phase is one too far.
RECURSIVE QFT_phaseLoop_offTarget(_, _, _, _, _)
QFT_phaseLoop_offTarget(seq, self, n, i, j) ==
    IF j >= n - i THEN seq
    ELSE QFT_phaseLoop_offTarget(
             Append(seq, <<QuantumControl(<<1>>, Phase(self.nameSpacePrefix \o "Ph" \o str(j))),
                           <<i + j + 1, i>> >>),
             self, n, i, j + 1)

\* for j in range(1, n - i): seq.append((QuantumControl([1], Phase(...)), [i + j, i]))
RECURSIVE QFT_phaseLoop(_, _, _, _, _)
QFT_phaseLoop(seq, self, n, i, j) ==
    IF j >= n - i THEN seq
    ELSE QFT_phaseLoop(
             Append(seq, <<QuantumControl(<<1>>, Phase(self.nameSpacePrefix \o "Ph" \o str(j))),
                           <<i + j, i>> >>),
             self, n, i, j + 1)

\* for i in range(n): seq.append((h, [i])); <the loop over j>
RECURSIVE QFT_qubitLoop(_, _, _, _)
QFT_qubitLoop(seq, self, n, i) ==
    IF i >= n THEN seq
    ELSE QFT_qubitLoop(QFT_phaseLoop(Append(seq, <<Hadamard, <<i>> >>), self, n, i, 1),
                       self, n, i + 1)

\* A slip: the final QubitReversal is not appended.
QFT_getEquivalentSequence_noReversal(self) ==
    LET n == self.numberQubits
    IN  Return(Sequence(<<>>, Range(n), QFT_qubitLoop(<<>>, self, n, 0)))

QFT_getEquivalentSequence(self) ==
    LET n == self.numberQubits
        seq == QFT_qubitLoop(<<>>, self, n, 0)
    IN  Return(Sequence(<<>>, Range(n), Append(seq, <<QubitReversal(n), Range(n)>>)))

QFT_getNumberQubits(self) == self.numberQubits

QFT_getNumberClassicalBits(self) == 0

QFT_hasDecomposition(self) == TRUE

(***************************************************************************)
(* class InverseQFT                                                        *)
(***************************************************************************)
\* A slip: only the numbers of qubits are compared.
InverseQFT_eq_sizeOnly(self, o) ==
    IF o.kind # "InverseQFT" THEN FALSE
    ELSE self.qft.numberQubits = o.qft.numberQubits

InverseQFT_eq(self, o) ==
    IF o.kind # "InverseQFT" THEN FALSE
    ELSE /\ QFT_eq(self.qft, o.qft)
         /\ self.nameSpacePrefix = o.nameSpacePrefix

InverseQFT_getInverse(self) == Return(self.qft)

InverseQFT_getNumberQubits(self) == self.qft.numberQubits

InverseQFT_getNumberClassicalBits(self) == 0

InverseQFT_hasDecomposition(self) == TRUE

(***************************************************************************)
(* class PCCM                                                              *)
(***************************************************************************)
PCCM(name, nameSpacePrefix) ==
    [kind |-> "PCCM", name |-> name, nameSpacePrefix |-> nameSpacePrefix]

\* A slip: the name space prefix is not compared.
PCCM_eq_nameOnly(self, o) ==
    IF o.kind # "PCCM" THEN FALSE
    ELSE self.name = o.name

PCCM_eq(self, o) ==
    IF o.kind # "PCCM" THEN FALSE
    ELSE /\ self.name = o.name
         /\ self.nameSpacePrefix = o.nameSpacePrefix

\* InversePCCM.__init__ : self.pccm = PCCM(name, nameSpacePrefix)
InversePCCM(name, nameSpacePrefix) ==
    [kind |-> "InversePCCM", pccm |-> PCCM(name, nameSpacePrefix),
     nameSpacePrefix |-> nameSpacePrefix]

PCCM_getInverse(self) == Return(InversePCCM(self.name, self.nameSpacePrefix))

\* A slip: the last rotation is named without the name space prefix.
PCCM_getEquivalentSequence_barePrefix(self) ==
    LET gate1 == Rx(self.nameSpacePrefix \o "RX(π/2)")
        gate2 == Rx(self.nameSpacePrefix \o "RX(π/2)")
        gate3 == QuantumControl(<<1>>, Rx(self.nameSpacePrefix \o "RX(" \o self.name \o ")"))
        gate4 == QuantumControl(<<1>>, Rx(self.nameSpacePrefix \o "RX(-π/2)"))
        gate5 == Rx(self.nameSpacePrefix \o "RX(-π/2)")
        gate6 == Ry("RY(-π/2)")
        seq == << <<gate1, <<0>> >>,
                  <<gate2, <<1>> >>,
                  <<gate3, <<0, 1>> >>,
                  <<gate4, <<1, 0>> >>,
                  <<gate5, <<0>> >>,
                  <<gate6, <<1>> >> >>
    IN  Return(Sequence(<<>>, <<0, 1>>, seq))

PCCM_getEquivalentSequence(self) ==
    LET gate1 == Rx(self.nameSpacePrefix \o "RX(π/2)")
        gate2 == Rx(self.nameSpacePrefix \o "RX(π/2)")
        gate3 == QuantumControl(<<1>>, Rx(self.nameSpacePrefix \o "RX(" \o self.name \o ")"))
        gate4 == QuantumControl(<<1>>, Rx(self.nameSpacePrefix \o "RX(-π/2)"))
        gate5 == Rx(self.nameSpacePrefix \o "RX(-π/2)")
        gate6 == Ry(self.nameSpacePrefix \o "RY(-π/2)")
        seq == << <<gate1, <<0>> >>,
                  <<gate2, <<1>> >>,
                  <<gate3, <<0, 1>> >>,
                  <<gate4, <<1, 0>> >>,
                  <<gate5, <<0>> >>,
                  <<gate6, <<1>> >> >>
    IN  Return(Sequence(<<>>, <<0, 1>>, seq))

PCCM_getNumberQubits(self) == 2

PCCM_getNumberClassicalBits(self) == 0

PCCM_hasDecomposition(self) == TRUE

(***************************************************************************)
(* class InversePCCM                                                       *)
(***************************************************************************)
InversePCCM_eq(self, o) ==
    IF o.kind # "InversePCCM" THEN FALSE
    ELSE /\ PCCM_eq(self.pccm, o.pccm)
         /\ self.nameSpacePrefix = o.nameSpacePrefix

InversePCCM_getInverse(self) == Return(self.pccm)

InversePCCM_getNumberQubits(self) == 2

InversePCCM_getNumberClassicalBits(self) == 0

InversePCCM_hasDecomposition(self) == TRUE

(***************************************************************************)
(* Method dispatch: op.getInverse(), Sequence.getInverse(), ...            *)
(***************************************************************************)
RECURSIVE getInverse(_)

\* Sequence.getInverse() : the triples in reverse order, each operation
\* inverted, each target list and both registers unchanged.  Raises what an
\* operation's getInverse raises.
Sequence_getInverse(self) ==
    LET n == Len(self.gatesAndTargets)
        inv == [m \in 1..n |-> getInverse(self.gatesAndTargets[n + 1 - m][1])]
    IN  IF \E m \in 1..n : inv[m].tag = "raise"
        THEN inv[CHOOSE m \in 1..n : inv[m].tag = "raise" /\ \A l \in 1..(m - 1) : inv[l].tag # "raise"]
        ELSE Return(Sequence(self.bits, self.qubits,
                 [m \in 1..n |-> <<inv[m].value, self.gatesAndTargets[n + 1 - m][2]>>]))

\* QuantumControl.getInverse() : the same onoff around the inverse of qop
QuantumControl_getInverse(self) ==
    LET q == getInverse(self.qop)
    IN  IF q.tag = "raise" THEN q ELSE Return(QuantumControl(self.onoff, q.value))

\* getInverse() of the elementary gates: Phase, Rx and Ry have an inverse
\* kind of the same name; Hadamard, PauliX, SwapQubits and Toffoli are their
\* own inverses.
ElementaryGate_getInverse(op) ==
    CASE op.kind = "Phase" -> Return(InversePhase(op.name))
      [] op.kind = "InversePhase" -> Return(Phase(op.name))
      [] op.kind = "Rx" -> Return(InverseRx(op.name))
      [] op.kind = "InverseRx" -> Return(Rx(op.name))
      [] op.kind = "Ry" -> Return(InverseRy(op.name))
      [] op.kind = "InverseRy" -> Return(Ry(op.name))
      [] op.kind \in {"Hadamard", "PauliX", "SwapQubits", "Toffoli"} -> Return(op)

getInverse(op) ==
    CASE op.kind = "PermuteQubits" -> PermuteQubits_getInverse(op)
      [] op.kind = "QubitReversal" -> QubitReversal_getInverse(op)
      [] op.kind = "QFT" -> QFT_getInverse(op)
      [] op.kind = "InverseQFT" -> InverseQFT_getInverse(op)
      [] op.kind = "PCCM" -> PCCM_getInverse(op)
      [] op.kind = "InversePCCM" -> InversePCCM_getInverse(op)
      [] op.kind = "Sequence" -> Sequence_getInverse(op)
      [] op.kind = "QuantumControl" -> QuantumControl_getInverse(op)
      [] OTHER -> ElementaryGate_getInverse(op)

\* A slip: the lowering of the QFT is returned as it is, not inverted.
InverseQFT_getEquivalentSequence_notInverted(self) ==
    QFT_getEquivalentSequence(self.qft)

InverseQFT_getEquivalentSequence(self) ==
    LET s == QFT_getEquivalentSequence(self.qft)
    IN  IF s.tag = "raise" THEN s ELSE Sequence_getInverse(s.value)

\* A slip: the lowering of the PCCM is returned as it is, not inverted.
InversePCCM_getEquivalentSequence_notInverted(self) ==
    PCCM_getEquivalentSequence(self.pccm)

InversePCCM_getEquivalentSequence(self) ==
    LET s == PCCM_getEquivalentSequence(self.pccm)
    IN  IF s.tag = "raise" THEN s ELSE Sequence_getInverse(s.value)

\* a == b : type(a).__eq__(a, b)
Eq(a, b) ==
    CASE a.kind = "PermuteQubits" -> PermuteQubits_eq(a, b)
      [] a.kind = "QubitReversal" -> QubitReversal_eq(a, b)
      [] a.kind = "QFT" -> QFT_eq(a, b)
      [] a.kind = "InverseQFT" -> InverseQFT_eq(a, b)
      [] a.kind = "PCCM" -> PCCM_eq(a, b)
      [] a.kind = "InversePCCM" -> InversePCCM_eq(a, b)

getEquivalentSequence(op) ==
    CASE op.kind = "PermuteQubits" -> PermuteQubits_getEquivalentSequence(op)
      [] op.kind = "QubitReversal" -> QubitReversal_getEquivalentSequence(op)
      [] op.kind = "QFT" -> QFT_getEquivalentSequence(op)
      [] op.kind = "InverseQFT" -> InverseQFT_getEquivalentSequence(op)
      [] op.kind = "PCCM" -> PCCM_getEquivalentSequence(op)
      [] op.kind = "InversePCCM" -> InversePCCM_getEquivalentSequence(op)

getNumberQubits(op) ==
    CASE op.kind = "PermuteQubits" -> PermuteQubits_getNumberQubits(op)
      [] op.kind = "QubitReversal" -> QubitReversal_getNumberQubits(op)
      [] op.kind = "QFT" -> QFT_getNumberQubits(op)
      [] op.kind = "InverseQFT" -> InverseQFT_getNumberQubits(op)
      [] op.kind = "PCCM" -> PCCM_getNumberQubits(op)
      [] op.kind = "InversePCCM" -> InversePCCM_getNumberQubits(op)

getNumberClassicalBits(op) ==
    CASE op.kind = "PermuteQubits" -> PermuteQubits_getNumberClassicalBits(op)
      [] op.kind = "QubitReversal" -> QubitReversal_getNumberClassicalBits(op)
      [] op.kind = "QFT" -> QFT_getNumberClassicalBits(op)
      [] op.kind = "InverseQFT" -> InverseQFT_getNumberClassicalBits(op)
      [] op.kind = "PCCM" -> PCCM_getNumberClassicalBits(op)
      [] op.kind = "InversePCCM" -> InversePCCM_getNumberClassicalBits(op)

hasDecomposition(op) ==
    CASE op.kind = "PermuteQubits" -> PermuteQubits_hasDecomposition(op)
      [] op.kind = "QubitReversal" -> QubitReversal_hasDecomposition(op)
      [] op.kind = "QFT" -> QFT_hasDecomposition(op)
      [] op.kind = "InverseQFT" -> InverseQFT_hasDecomposition(op)
      [] op.kind = "PCCM" -> PCCM_hasDecomposition(op)
      [] op.kind = "InversePCCM" -> InversePCCM_hasDecomposition(op)

(***************************************************************************)
(* controlledXGate and controlledXGateInternal                             *)
(***************************************************************************)
\* Variants of controlledXGateInternal with one slip each; the properties of
\* controlledXGate stated below fail on them:
\*   "once"  the block and the Toffoli are appended once, not twice;
\*   "onoff" the base case's QuantumControl gets one control value per control;
\*   "fresh" the recursive call gets a new qubit, not the last control, as ancilla;
\*   "tof"   the Toffoli is put on [ancilla, last control, target];
\*   "short" the second Toffoli is not appended;
\*   "early" the recursion starts at more than 2 controls, not more than 3.
RECURSIVE controlledXGateInternal_variant(_, _, _, _, _)
controlledXGateInternal_variant(v, controls, ancilla, target, toffoli) ==
    LET block ==
            IF Len(controls) > (IF v = "early" THEN 2 ELSE 3)
            THEN LET borrowed == IF v = "fresh" THEN <<ancilla[1] + 1>>
                                 ELSE <<LastItem(controls).value>>
                     buffer == controlledXGateInternal_variant(
                                   v, AllButLast(controls), borrowed, ancilla, toffoli)
                 IN  IF buffer.tag = "raise" THEN buffer
                     ELSE Return(buffer.value.gatesAndTargets)
            ELSE Return(<< <<QuantumControl(
                                 Repeat(1, IF v = "onoff" THEN Len(controls)
                                           ELSE Len(controls) - 1), PauliX),
                             AllButLast(controls) \o ancilla>> >>)
        last == LastItem(controls)
    IN  IF block.tag = "raise" THEN block
        ELSE IF last.tag = "raise" THEN last
        ELSE LET tof == IF v = "tof" THEN <<toffoli, ancilla \o <<last.value>> \o target>>
                        ELSE <<toffoli, <<last.value>> \o ancilla \o target>>
                 seq == IF v = "once" THEN block.value \o <<tof>>
                        ELSE IF v = "short" THEN block.value \o <<tof>> \o block.value
                        ELSE block.value \o <<tof>> \o block.value \o <<tof>>
             IN  Return(Sequence(<<>>, controls \o target \o ancilla, seq))

controlledXGateInternal_once(controls, ancilla, target, toffoli) ==
    controlledXGateInternal_variant("once", controls, ancilla, target, toffoli)

controlledXGateInternal_onoff(controls, ancilla, target, toffoli) ==
    controlledXGateInternal_variant("onoff", controls, ancilla, target, toffoli)

controlledXGateInternal_fresh(controls, ancilla, target, toffoli) ==
    controlledXGateInternal_variant("fresh", controls, ancilla, target, toffoli)

controlledXGateInternal_tof(controls, ancilla, target, toffoli) ==
    controlledXGateInternal_variant("tof", controls, ancilla, target, toffoli)

controlledXGateInternal_short(controls, ancilla, target, toffoli) ==
    controlledXGateInternal_variant("short", controls, ancilla, target, toffoli)

controlledXGateInternal_early(controls, ancilla, target, toffoli) ==
    controlledXGateInternal_variant("early", controls, ancilla, target, toffoli)

RECURSIVE controlledXGateInternal(_, _, _, _)
controlledXGateInternal(controls, ancilla, target, toffoli) ==
    LET \* the if/else that fills seq before each of the two Toffoli triples
        block ==
            IF Len(controls) > 3
            THEN LET buffer == controlledXGateInternal(
                                   AllButLast(controls), <<LastItem(controls).value>>,
                                   ancilla, toffoli)
                 IN  IF buffer.tag = "raise" THEN buffer
                     ELSE Return(buffer.value.gatesAndTargets)
            ELSE Return(<< <<QuantumControl(Repeat(1, Len(controls) - 1), PauliX),
                             AllButLast(controls) \o ancilla>> >>)
        last == LastItem(controls)
    IN  IF block.tag = "raise" THEN block
        ELSE IF last.tag = "raise" THEN last
        ELSE LET tof == <<toffoli, <<last.value>> \o ancilla \o target>>
                 seq == block.value \o <<tof>> \o block.value \o <<tof>>
             IN  Return(Sequence(<<>>, controls \o target \o ancilla, seq))

\* The arguments of every call of controlledXGateInternal that the call with
\* these arguments makes, at any depth, itself included; parent is the controls
\* list of the caller (the empty list for the outermost call).
RECURSIVE controlledXGateInternal_calls(_, _, _, _)
controlledXGateInternal_calls(controls, ancilla, target, parent) ==
    {[controls |-> controls, ancilla |-> ancilla, target |-> target, parent |-> parent]}
    \cup IF Len(controls) > 3
         THEN controlledXGateInternal_calls(
                  AllButLast(controls), <<LastItem(controls).value>>, ancilla, controls)
         ELSE {}

\* The sub-sequences that the call with these arguments copies into its
\* result, at any depth: the positions from..to (1-based, in the result of
\* the outermost call, offset being the number of triples before this call's
\* own) of each copy of a recursive call's triples, with the qubit that the
\* recursive call got as its ancilla.
RECURSIVE controlledXGateInternal_spans(_, _, _, _, _)
controlledXGateInternal_spans(controls, ancilla, target, toffoli, offset) ==
    IF Len(controls) > 3
    THEN LET last == LastItem(controls).value
             n == Len(controlledXGateInternal(AllButLast(controls), <<last>>,
                                              ancilla, toffoli).value.gatesAndTargets)
         IN  {[from |-> offset + 1, to |-> offset + n, borrowed |-> last],
              [from |-> offset + n + 2, to |-> offset + 2 * n + 1, borrowed |-> last]}
             \cup controlledXGateInternal_spans(AllButLast(controls), <<last>>,
                                                ancilla, toffoli, offset)
             \cup controlledXGateInternal_spans(AllButLast(controls), <<last>>,
                                                ancilla, toffoli, offset + n + 1)
    ELSE {}

controlledXGate(k, namePrefix) ==
    LET controls == Range(k)
        ancilla == <<k + 1>>
        target == <<k>>
        toffoli == Toffoli(namePrefix)
        s == controlledXGateInternal(controls, ancilla, target, toffoli)
    IN  IF s.tag = "raise" THEN s ELSE Return(<<toffoli, s.value>>)

(***************************************************************************)
(* The action of a gate on a basis state b (a function from qubit index to *)
(* 0 or 1), for the gates that permute basis states.  A QuantumControl     *)
(* applies its inner operation to the trailing targets iff the leading     *)
(* targets hold the onoff pattern.                                         *)
(***************************************************************************)
Flip(b, q) == [b EXCEPT ![q] = 1 - b[q]]

RECURSIVE ApplyGate(_, _, _)
ApplyGate(gate, targets, b) ==
    CASE gate.kind = "PauliX" -> Flip(b, targets[1])
      [] gate.kind = "Toffoli" ->
            IF b[targets[1]] = 1 /\ b[targets[2]] = 1 THEN Flip(b, targets[3]) ELSE b
      [] gate.kind = "QuantumControl" ->
            LET nc == Len(gate.onoff)
            IN  IF \A i \in 1..nc : b[targets[i]] = gate.onoff[i]
                THEN ApplyGate(gate.qop, SubSeq(targets, nc + 1, Len(targets)), b)
                ELSE b

(***************************************************************************)
(* The operation objects a client constructs.                              *)
(***************************************************************************)
\* lists of length n <= MaxQubits over 0..n: the permutations of 0..n-1 and
\* the lists with a duplicated, missing or out-of-range index
TargetOrders == UNION {[1..n -> 0..n] : n \in 0..MaxQubits}

IsPermutation(list) ==
    \A x \in 0..(Len(list) - 1) : Cardinality({i \in 1..Len(list) : list[i] = x}) = 1

Sizes == 0..MaxQubits

AllOps ==
    {PermuteQubits(p) : p \in TargetOrders}
    \cup {QubitReversal(n) : n \in Sizes}
    \cup {QFT(n, s) : n \in Sizes, s \in Prefixes}
    \cup {InverseQFT(n, s) : n \in Sizes, s \in Prefixes}
    \cup {PCCM(a, s) : a \in Names, s \in Prefixes}
    \cup {InversePCCM(a, s) : a \in Names, s \in Prefixes}

WellFormed(op) == op.kind = "PermuteQubits" => IsPermutation(op.targetOrder)

\* the right operands of ==
Operands == {op \in AllOps : WellFormed(op)} \cup {Hadamard}

(***************************************************************************)
(* The client of the operation classes: it constructs an operation and     *)
(* calls its methods, following getInverse() to the object it returns.     *)
(***************************************************************************)
cxIdle ==
    /\ numberControls = 0
    /\ cx = NoResult
    /\ phase = "off"
    /\ bits0 = <<>>
    /\ bits = <<>>
    /\ ip = 0

Init ==
    /\ orig \in AllOps
    /\ cur = orig
    /\ depth = 0
    /\ call = "__init__"
    /\ other = NoObject
    /\ res = NoResult
    /\ cxIdle

CallGetInverse ==
    /\ depth < MaxInverse
    /\ LET r == getInverse(cur)
       IN  /\ res' = r
           /\ cur' = IF r.tag = "return" THEN r.value ELSE cur
           /\ depth' = IF r.tag = "return" THEN depth + 1 ELSE depth
    /\ call' = "getInverse"
    /\ other' = NoObject
    /\ UNCHANGED <<orig, cxVars>>

CallGetEquivalentSequence ==
    /\ res' = getEquivalentSequence(cur)
    /\ call' = "getEquivalentSequence"
    /\ other' = NoObject
    /\ UNCHANGED <<orig, cur, depth, cxVars>>

CallGetNumberQubits ==
    /\ res' = Return(getNumberQubits(cur))
    /\ call' = "getNumberQubits"
    /\ other' = NoObject
    /\ UNCHANGED <<orig, cur, depth, cxVars>>

CallGetNumberClassicalBits ==
    /\ res' = Return(getNumberClassicalBits(cur))
    /\ call' = "getNumberClassicalBits"
    /\ other' = NoObject
    /\ UNCHANGED <<orig, cur, depth, cxVars>>

CallHasDecomposition ==
    /\ res' = Return(hasDecomposition(cur))
    /\ call' = "hasDecomposition"
    /\ other' = NoObject
    /\ UNCHANGED <<orig, cur, depth, cxVars>>

CallEq(o) ==
    /\ res' = Return(Eq(cur, o))
    /\ call' = "__eq__"
    /\ other' = o
    /\ UNCHANGED <<orig, cur, depth, cxVars>>

Next ==
    \/ CallGetInverse
    \/ CallGetEquivalentSequence
    \/ CallGetNumberQubits
    \/ CallGetNumberClassicalBits
    \/ CallHasDecomposition
    \/ \E o \in Operands : CallEq(o)

Spec == Init /\ [][Next]_vars

(***************************************************************************)
(* The client of controlledXGate: it builds the circuit for numberControls *)
(* controls and executes it, triple by triple, on a basis state.           *)
(***************************************************************************)
opIdle ==
    /\ orig = NoObject
    /\ cur = NoObject
    /\ depth = 0
    /\ call = "none"
    /\ other = NoObject
    /\ res = NoResult

InitCX ==
    /\ numberControls \in 0..MaxControls
    /\ cx = NoResult
    /\ phase = "start"
    /\ bits0 = <<>>
    /\ bits = <<>>
    /\ ip = 0
    /\ opIdle

\* the Sequence and the triples of the circuit that was returned
cxSequence == cx.value[2]
cxTriples == cxSequence.gatesAndTargets
cxQubits == {cxSequence.qubits[i] : i \in 1..Len(cxSequence.qubits)}

CallControlledXGate ==
    /\ phase = "start"
    /\ cx' = controlledXGate(numberControls, "")
    /\ phase' = IF cx'.tag = "raise" THEN "raised" ELSE "built"
    /\ UNCHANGED <<numberControls, bits0, bits, ip, opVars>>

Prepare ==
    /\ phase = "built"
    /\ \E b \in [cxQubits -> {0, 1}] :
          /\ bits0' = b
          /\ bits' = b
    /\ ip' = 1
    /\ phase' = "run"
    /\ UNCHANGED <<numberControls, cx, opVars>>

ExecuteTriple ==
    /\ phase = "run"
    /\ ip <= Len(cxTriples)
    /\ bits' = ApplyGate(cxTriples[ip][1], cxTriples[ip][2], bits)
    /\ ip' = ip + 1
    /\ UNCHANGED <<numberControls, cx, phase, bits0, opVars>>

Finish ==
    /\ phase = "run"
    /\ ip > Len(cxTriples)
    /\ phase' = "done"
    /\ UNCHANGED <<numberControls, cx, bits0, bits, ip, opVars>>

NextCX ==
    \/ CallControlledXGate
    \/ Prepare
    \/ ExecuteTriple
    \/ Finish

SpecCX == InitCX /\ [][NextCX]_vars

(***************************************************************************)
(* Properties of controlledXGate, under SpecCX.                            *)
(***************************************************************************)
cxBuilt == phase \in {"built", "run", "done"}
cxControls == 0..(numberControls - 1)
cxTarget == numberControls
cxAncilla == numberControls + 1
cxAllControlsSet == \A c \in cxControls : bits0[c] = 1

\* C1: for 4 controls, the returned triples, executed in order on any basis
\* state whose ancilla bit is 0, flip the target iff all four controls are 1,
\* leave every control as it was and leave the ancilla at 0.
C1_TruthTable ==
    (phase = "done" /\ numberControls = 4 /\ bits0[cxAncilla] = 0) =>
        /\ \A c \in cxControls : bits[c] = bits0[c]
        /\ bits[cxAncilla] = 0
        /\ bits[cxTarget] = IF cxAllControlsSet THEN 1 - bits0[cxTarget] ELSE bits0[cxTarget]

C1_Witness ==
    /\ phase = "done" /\ numberControls = 4
    /\ bits0[cxAncilla] = 0 /\ cxAllControlsSet
    /\ bits[cxTarget] = 1 /\ bits0[cxTarget] = 0

\* C2: controlledXGate(0) does not raise an index error (it returns a
\* sequence, which acts as an unconditional X on the target).
C2_ZeroControlsReturns ==
    (numberControls = 0 /\ phase # "start") =>
        /\ cx.tag = "return"
        /\ (phase = "done" => bits[cxTarget] = 1 - bits0[cxTarget])

\* C3 as stated: controlledXGate(1) returns exactly one triple, a singly
\* controlled X from the control qubit 0 onto the target qubit 1.
C3_SingleControlledX ==
    (numberControls = 1 /\ cxBuilt) =>
        cxTriples = << <<QuantumControl(<<1>>, PauliX), <<0, 1>> >> >>

\* C3 as amended: controlledXGate(1) returns the four triples of the base
\* case over the register [0, 1, 2]: an X without controls (a QuantumControl
\* with empty onoff) on the ancilla 2, the Toffoli on [0, 2, 1], and the same
\* two triples again.
C3_OneControlBaseCase ==
    (numberControls = 1 /\ phase # "start") =>
        /\ cx.tag = "return"
        /\ cxSequence.qubits = <<0, 1, 2>>
        /\ cxTriples = << <<QuantumControl(<<>>, PauliX), <<2>> >>,
                          <<cx.value[1], <<0, 2, 1>> >>,
                          <<QuantumControl(<<>>, PauliX), <<2>> >>,
                          <<cx.value[1], <<0, 2, 1>> >> >>
        /\ cx.value[1] = Toffoli("")

C3_Witness == numberControls = 1 /\ phase = "built" /\ Len(cxTriples) = 4

\* C4: for k >= 1 controls the declared qubit register of the returned
\* sequence is exactly [0..k-1] + [k] + [k+1], every target of every triple
\* lies in it, and every call of controlledXGateInternal in the recursion
\* works on qubits of that register only, its ancilla being a control of its
\* caller.
ListItems(list) == {list[i] : i \in 1..Len(list)}

C4_OneExtraQubit ==
    (numberControls >= 1 /\ phase # "start") =>
        LET k == numberControls
            register == 0..(k + 1)
        IN  /\ cx.tag = "return"
            /\ cxSequence.qubits = Range(k) \o <<k>> \o <<k + 1>>
            /\ Len(cxSequence.qubits) = k + 2
            /\ \A m \in 1..Len(cxTriples) : ListItems(cxTriples[m][2]) \subseteq register
            /\ \A f \in controlledXGateInternal_calls(Range(k), <<k + 1>>, <<k>>, <<>>) :
                  LET r == controlledXGateInternal(f.controls, f.ancilla, f.target, cx.value[1])
                  IN  /\ r.tag = "return"
                      /\ ListItems(r.value.qubits) \subseteq register
                      /\ \A m \in 1..Len(r.value.gatesAndTargets) :
                            ListItems(r.value.gatesAndTargets[m][2]) \subseteq ListItems(r.value.qubits)
                      /\ f.parent # <<>> => f.ancilla[1] \in ListItems(f.parent)

C4_Witness ==
    /\ numberControls = 5 /\ phase = "built"
    /\ Cardinality(controlledXGateInternal_calls(Range(5), <<6>>, <<5>>, <<>>)) = 3
    /\ \E m \in 1..Len(cxTriples) : cxTriples[m][2] = <<0, 1, 3>>

(***************************************************************************)
(* Properties of the operation classes, under Spec.                        *)
(***************************************************************************)
\* C5: op.getInverse().getInverse() == op for every operation: a permutation
\* of 0..n-1, QubitReversal(n), QFT(n, s), InverseQFT(n, s), PCCM(name, s)
\* and InversePCCM(name, s).
C5_DoubleInverse ==
    /\ depth = 2 => Eq(cur, orig)
    /\ (WellFormed(orig) /\ call = "getInverse") => res.tag = "return"

C5_Witness ==
    /\ depth = 2
    /\ orig \in {PermuteQubits(<<1, 2, 0>>), QFT(2, "pre"), InversePCCM("a", "pre")}

\* C6: for a permutation p of 0..n-1, the targetOrder inv of
\* PermuteQubits(p).getInverse() has inv[x] = the index i with p[i] = x:
\* p[inv[x]] = x for all x and inv[p[i]] = i for all i.
C6_InversePermutation ==
    (orig.kind = "PermuteQubits" /\ depth = 1) =>
        LET p == orig.targetOrder
            inv == cur.targetOrder
            n == Len(p)
        IN  /\ cur.kind = "PermuteQubits"
            /\ Len(inv) = n
            /\ \A x \in 0..(n - 1) : /\ inv[x + 1] \in 0..(n - 1)
                                     /\ p[inv[x + 1] + 1] = x
            /\ \A i \in 0..(n - 1) : inv[p[i + 1] + 1] = i

C6_Witness ==
    /\ orig = PermuteQubits(<<1, 2, 0>>) /\ depth = 1
    /\ cur = PermuteQubits(<<2, 0, 1>>)

\* C7: a PermuteQubits whose targetOrder is not a bijection on 0..n-1 is
\* rejected by whichever method is called on it first: getInverse,
\* getEquivalentSequence, getNumberQubits and == all raise.
C7_MalformedRejected ==
    (/\ orig.kind = "PermuteQubits"
     /\ ~IsPermutation(orig.targetOrder)
     /\ call \in {"getInverse", "getEquivalentSequence", "getNumberQubits", "__eq__"})
        => res.tag = "raise"

\* C8: QFT(n, s).getEquivalentSequence() is, on the register 0..n-1: for
\* i = 0..n-1 a Hadamard on [i] followed, for j = 1..n-i-1, by
\* QuantumControl([1], Phase(s + "Ph" + j)) on [i+j, i]; then QubitReversal(n)
\* on [0..n-1]; n + n(n-1)/2 + 1 triples in all.
\* The Hadamard of qubit i is the triple number 1 + i*n - i*(i-1)/2.
QFTqueried == call = "getEquivalentSequence" /\ cur.kind = "QFT"
QFTHadamardAt(n, i) == 1 + i * n - (i * (i - 1)) \div 2

C8_QFTLowering ==
    QFTqueried =>
        LET n == cur.numberQubits
            s == cur.nameSpacePrefix
            t == res.value.gatesAndTargets
        IN  /\ res.tag = "return"
            /\ res.value.qubits = Range(n)
            /\ res.value.bits = <<>>
            /\ Len(t) = n + (n * (n - 1)) \div 2 + 1
            /\ \A i \in 0..(n - 1) :
                  /\ t[QFTHadamardAt(n, i)] = <<Hadamard, <<i>> >>
                  /\ \A j \in 1..(n - i - 1) :
                        t[QFTHadamardAt(n, i) + j] =
                            <<QuantumControl(<<1>>, Phase(s \o "Ph" \o Digit[j + 1])), <<i + j, i>> >>
            /\ t[Len(t)] = <<QubitReversal(n), Range(n)>>

C8_Witness ==
    /\ QFTqueried /\ cur = QFT(3, "pre")
    /\ res.value.gatesAndTargets[5] = <<QuantumControl(<<1>>, Phase("prePh1")), <<2, 1>> >>

\* C9 as stated: QFT(n, s).getEquivalentSequence() never raises; for n = 0
\* the returned sequence has no triples, for n = 1 it has no phase gate.
IsPhaseTriple(triple) == triple[1].kind = "QuantumControl"

C9_EmptyForZero ==
    QFTqueried =>
        LET t == res.value.gatesAndTargets
        IN  /\ res.tag = "return"
            /\ cur.numberQubits = 0 => t = <<>>
            /\ cur.numberQubits = 1 => \A m \in 1..Len(t) : ~IsPhaseTriple(t[m])

\* C9 as amended: QFT(n, s).getEquivalentSequence() never raises; for n = 0
\* the returned sequence holds exactly one triple, QubitReversal(0) on the
\* empty target list, and no Hadamard or phase gate; for n = 1 it holds the
\* Hadamard on [0] and QubitReversal(1) on [0], and no phase gate.
C9_DegenerateSizes ==
    QFTqueried =>
        LET t == res.value.gatesAndTargets
        IN  /\ res.tag = "return"
            /\ cur.numberQubits = 0 => t = << <<QubitReversal(0), <<>> >> >>
            /\ cur.numberQubits = 1 =>
                  /\ t = << <<Hadamard, <<0>> >>, <<QubitReversal(1), <<0>> >> >>
                  /\ \A m \in 1..Len(t) : ~IsPhaseTriple(t[m])

C9_Witness == QFTqueried /\ cur.numberQubits = 0 /\ Len(res.value.gatesAndTargets) = 1

\* C10: QFT(n, s).getInverse() == InverseQFT(n, s) and
\* InverseQFT(n, s).getInverse() == QFT(n, s): the inverse has the same number
\* of qubits and the same prefix, and it is not equal to an InverseQFT (a QFT)
\* built with another n or another prefix.
C10_QFTInverse ==
    /\ (orig.kind = "QFT" /\ depth = 1) =>
          /\ cur.kind = "InverseQFT"
          /\ InverseQFT_getNumberQubits(cur) = orig.numberQubits
          /\ cur.nameSpacePrefix = orig.nameSpacePrefix
          /\ (call = "__eq__" /\ other.kind = "InverseQFT") =>
                (res.value <=> other = InverseQFT(orig.numberQubits, orig.nameSpacePrefix))
    /\ (orig.kind = "InverseQFT" /\ depth = 1) =>
          /\ cur.kind = "QFT"
          /\ cur.numberQubits = orig.qft.numberQubits
          /\ cur.nameSpacePrefix = orig.nameSpacePrefix
          /\ (call = "__eq__" /\ other.kind = "QFT") =>
                (res.value <=> other = QFT(orig.qft.numberQubits, orig.nameSpacePrefix))

C10_Witness ==
    /\ orig = QFT(3, "pre") /\ depth = 1 /\ call = "__eq__"
    /\ other = InverseQFT(3, "pre") /\ res.value = TRUE

\* C11: InverseQFT(n, s).getEquivalentSequence() is the lowering of QFT(n, s)
\* in reverse order with every operation inverted and every target list
\* kept: first QubitReversal(n) on [0..n-1], then for i = n-1..0 the
\* QuantumControl([1], InversePhase(s + "Ph" + j)) on [i+j, i] for
\* j = n-i-1..1 followed by the Hadamard on [i]; QubitReversal occurs once.
\* The Hadamard of qubit i is the triple number L + 1 - QFTHadamardAt(n, i),
\* where L = n + n(n-1)/2 + 1 is the number of triples.
InverseQFTqueried == call = "getEquivalentSequence" /\ cur.kind = "InverseQFT"
QFTLength(n) == n + (n * (n - 1)) \div 2 + 1

C11_InverseQFTLowering ==
    InverseQFTqueried =>
        LET n == cur.qft.numberQubits
            s == cur.nameSpacePrefix
            t == res.value.gatesAndTargets
            L == QFTLength(n)
        IN  /\ res.tag = "return"
            /\ res.value.qubits = Range(n)
            /\ res.value.bits = <<>>
            /\ Len(t) = L
            /\ t[1] = <<QubitReversal(n), Range(n)>>
            /\ Cardinality({m \in 1..L : t[m][1].kind = "QubitReversal"}) = 1
            /\ \A i \in 0..(n - 1) :
                  /\ t[L + 1 - QFTHadamardAt(n, i)] = <<Hadamard, <<i>> >>
                  /\ \A j \in 1..(n - i - 1) :
                        t[L + 1 - QFTHadamardAt(n, i) - j] =
                            <<QuantumControl(<<1>>, InversePhase(s \o "Ph" \o Digit[j + 1])),
                              <<i + j, i>> >>

C11_Witness ==
    /\ InverseQFTqueried /\ cur = InverseQFT(3, "pre")
    /\ res.value.gatesAndTargets[2] = <<Hadamard, <<2>> >>
    /\ res.value.gatesAndTargets[5] =
           <<QuantumControl(<<1>>, InversePhase("prePh2")), <<2, 0>> >>

PCCMSuffixes == {"RX(π/2)", "RX(-π/2)", "RY(-π/2)"} \cup {"RX(" \o a \o ")" : a \in Names}
StartsWith(name, prefix) == \E suffix \in PCCMSuffixes : name = prefix \o suffix
GateName(qop) == IF qop.kind = "QuantumControl" THEN qop.qop.name ELSE qop.name

C14_PCCMLowering ==
    (call = "getEquivalentSequence" /\ cur.kind = "PCCM") =>
        LET s == cur.nameSpacePrefix
            t == res.value.gatesAndTargets
        IN  /\ res.tag = "return"
            /\ res.value.qubits = <<0, 1>>
            /\ t = << <<Rx(s \o "RX(π/2)"), <<0>> >>,
                      <<Rx(s \o "RX(π/2)"), <<1>> >>,
                      <<QuantumControl(<<1>>, Rx(s \o "RX(" \o cur.name \o ")")), <<0, 1>> >>,
                      <<QuantumControl(<<1>>, Rx(s \o "RX(-π/2)")), <<1, 0>> >>,
                      <<Rx(s \o "RX(-π/2)"), <<0>> >>,
                      <<Ry(s \o "RY(-π/2)"), <<1>> >> >>
            /\ \A m \in 1..Len(t) : StartsWith(GateName(t[m][1]), s)

C14_Witness ==
    /\ call = "getEquivalentSequence" /\ cur = PCCM("b", "pre")
    /\ Len(res.value.gatesAndTargets) = 6
    /\ res.value.gatesAndTargets[3] = <<QuantumControl(<<1>>, Rx("preRX(b)")), <<0, 1>> >>

\* C15: InversePCCM(name, s).getEquivalentSequence() is the lowering of
\* PCCM(name, s) in reverse order, Rx replaced by InverseRx, Ry by InverseRy,
\* a QuantumControl by a QuantumControl of the same onoff around the inverse
\* of its inner gate; names and target lists ([0,1] and [1,0] among them)
\* are unchanged.
InverseKind(kind) ==
    CASE kind = "Rx" -> "InverseRx"
      [] kind = "Ry" -> "InverseRy"
      [] OTHER -> kind

C15_InversePCCMLowering ==
    (call = "getEquivalentSequence" /\ cur.kind = "InversePCCM") =>
        LET s == cur.nameSpacePrefix
            f == PCCM_getEquivalentSequence(PCCM(cur.pccm.name, s)).value.gatesAndTargets
            t == res.value.gatesAndTargets
        IN  /\ res.tag = "return"
            /\ t = << <<InverseRy(s \o "RY(-π/2)"), <<1>> >>,
                      <<InverseRx(s \o "RX(-π/2)"), <<0>> >>,
                      <<QuantumControl(<<1>>, InverseRx(s \o "RX(-π/2)")), <<1, 0>> >>,
                      <<QuantumControl(<<1>>, InverseRx(s \o "RX(" \o cur.pccm.name \o ")")), <<0, 1>> >>,
                      <<InverseRx(s \o "RX(π/2)"), <<1>> >>,
                      <<InverseRx(s \o "RX(π/2)"), <<0>> >> >>
            /\ Len(t) = Len(f)
            /\ \A m \in 1..Len(t) :
                  LET g == f[Len(f) + 1 - m]
                  IN  /\ t[m][2] = g[2]
                      /\ GateName(t[m][1]) = GateName(g[1])
                      /\ t[m][1].kind = InverseKind(g[1].kind)
                      /\ g[1].kind = "QuantumControl" =>
                            /\ t[m][1].onoff = g[1].onoff
                            /\ t[m][1].qop.kind = InverseKind(g[1].qop.kind)

C15_Witness ==
    /\ call = "getEquivalentSequence" /\ cur = InversePCCM("a", "pre")
    /\ res.value.gatesAndTargets[1] = <<InverseRy("preRY(-π/2)"), <<1>> >>
    /\ res.value.gatesAndTargets[3][2] = <<1, 0>>

(***************************************************************************)
(* Both clients together: an operation object is queried, or a controlled  *)
(* X is built and run.                                                     *)
(***************************************************************************)
InitAll == Init \/ InitCX

NextAll ==
    \/ phase = "off" /\ Next
    \/ phase # "off" /\ NextCX

SpecAll == InitAll /\ [][NextAll]_vars

\* C16: the sequence generated by an operation of the module, and the one of
\* controlledXGate(k) for k >= 1, is well-scoped: its qubit register is
\* exactly 0..getNumberQubits()-1 (0..k+1 for controlledXGate), its
\* classical-bit register is empty (getNumberClassicalBits() is 0), and every
\* target index of every triple is in the qubit register.
TargetsInside(sequence) ==
    \A m \in 1..Len(sequence.gatesAndTargets) :
        \A q \in 1..Len(sequence.gatesAndTargets[m][2]) :
            Contains(sequence.qubits, sequence.gatesAndTargets[m][2][q])

C16_WellScoped ==
    /\ call = "getEquivalentSequence" =>
          /\ res.tag = "return"
          /\ res.value.qubits = Range(getNumberQubits(cur))
          /\ res.value.bits = <<>>
          /\ getNumberClassicalBits(cur) = 0
          /\ TargetsInside(res.value)
    /\ (cxBuilt /\ numberControls >= 1) =>
          /\ cxSequence.qubits = Range(numberControls + 2)
          /\ cxSequence.bits = <<>>
          /\ TargetsInside(cxSequence)

C16_Witness ==
    /\ call = "getEquivalentSequence" /\ cur = QFT(3, "pre")
    /\ res.value.qubits = <<0, 1, 2>>
    /\ res.value.gatesAndTargets[3][2] = <<2, 0>>

SameParameters(a, b) ==
    CASE a.kind = "PermuteQubits" -> a.targetOrder = b.targetOrder
      [] a.kind = "QubitReversal" -> a.numberQubits = b.numberQubits
      [] a.kind = "QFT" ->
            a.numberQubits = b.numberQubits /\ a.nameSpacePrefix = b.nameSpacePrefix
      [] a.kind = "InverseQFT" ->
            /\ InverseQFT_getNumberQubits(a) = InverseQFT_getNumberQubits(b)
            /\ a.nameSpacePrefix = b.nameSpacePrefix
      [] a.kind = "PCCM" ->
            a.name = b.name /\ a.nameSpacePrefix = b.nameSpacePrefix
      [] a.kind = "InversePCCM" ->
            a.pccm.name = b.pccm.name /\ a.nameSpacePrefix = b.nameSpacePrefix

IsOperation(o) ==
    o.kind \in {"PermuteQubits", "QubitReversal", "QFT", "InverseQFT", "PCCM", "InversePCCM"}

C18_StructuralEquality ==
    call = "__eq__" =>
        /\ res.tag = "return"
        /\ res.value <=> (cur.kind = other.kind /\ SameParameters(cur, other))
        /\ cur.kind # other.kind => ~res.value
        /\ Eq(cur, cur)
        /\ IsOperation(other) =>
              /\ Eq(other, cur) = res.value
              /\ \A c \in Operands : (res.value /\ Eq(other, c)) => Eq(cur, c)

C18_Witness ==
    /\ call = "__eq__" /\ depth = 2
    /\ orig = PCCM("a", "pre") /\ other = PCCM("a", "pre")
    /\ res = Return(TRUE)

\* C20: every call of controlledXGateInternal(controls, ancilla, target,
\* toffoli) with at least one control returns a list A, T, A, T with two
\* identical halves, T being the shared Toffoli on [last control, ancilla,
\* target]; for up to 3 controls A is the one triple
\* QuantumControl([1]*(len(controls)-1), PauliX()) on controls[:-1] + ancilla,
\* for more than 3 controls A is the triple list of the recursive call on
\* controls[:-1] with the last control as ancilla and the ancilla as target.
C20_Form(f, t) ==
    LET h == Len(t) \div 2
        last == f.controls[Len(f.controls)]
        A == SubSeq(t, 1, h - 1)
    IN  /\ Len(t) = 2 * h
        /\ h >= 2
        /\ \A m \in 1..h : t[m] = t[m + h]
        /\ t[h] = <<cx.value[1], <<last, f.ancilla[1], f.target[1]>> >>
        /\ IF Len(f.controls) <= 3
           THEN A = << <<QuantumControl(Repeat(1, Len(f.controls) - 1), PauliX),
                         AllButLast(f.controls) \o f.ancilla>> >>
           ELSE A = controlledXGateInternal(AllButLast(f.controls), <<last>>,
                                            f.ancilla, cx.value[1]).value.gatesAndTargets

C20_BlockToffoliTwice ==
    cxBuilt =>
        LET k == numberControls
        IN  /\ k >= 1
            /\ \A f \in controlledXGateInternal_calls(Range(k), <<k + 1>>, <<k>>, <<>>) :
                  IF f.parent = <<>>
                  THEN C20_Form(f, cxTriples)
                  ELSE LET r == controlledXGateInternal(f.controls, f.ancilla, f.target,
                                                        cx.value[1])
                       IN  r.tag = "return" /\ C20_Form(f, r.value.gatesAndTargets)

C20_Witness ==
    /\ cxBuilt /\ numberControls = 5
    /\ Len(cxTriples) = 22
    /\ cxTriples[11] = <<Toffoli(""), <<4, 6, 5>> >>
    /\ cxTriples[5] = <<Toffoli(""), <<3, 4, 6>> >>
    /\ cxTriples[22] = cxTriples[11]

\* C21: the ancilla of controlledXGate(k) is a borrowed one: for every k >= 1
\* and every initial basis state, the ancilla starting at 1 included, after
\* the whole sequence the ancilla and every control hold their initial
\* values and the target is flipped iff all k controls are 1; and the
\* control that a recursive sub-sequence borrows as its ancilla holds, where
\* the sub-sequence ends, the value it held where the sub-sequence began
\* (its initial value).
cxSpans ==
    controlledXGateInternal_spans(Range(numberControls), <<cxAncilla>>, <<cxTarget>>,
                                  cx.value[1], 0)

C21_DirtyAncilla ==
    /\ (phase = "done" /\ numberControls >= 1) =>
          /\ \A c \in cxControls : bits[c] = bits0[c]
          /\ bits[cxAncilla] = bits0[cxAncilla]
          /\ bits[cxTarget] = IF cxAllControlsSet THEN 1 - bits0[cxTarget] ELSE bits0[cxTarget]
    /\ phase \in {"run", "done"} =>
          \A sp \in cxSpans :
              ip \in {sp.from, sp.to + 1} => bits[sp.borrowed] = bits0[sp.borrowed]

C21_Witness ==
    /\ phase = "done" /\ numberControls = 5
    /\ bits0[cxAncilla] = 1 /\ bits[cxAncilla] = 1
    /\ cxAllControlsSet
    /\ bits0[cxTarget] = 0 /\ bits[cxTarget] = 1
    /\ Cardinality(cxSpans) = 6

\* a state inside a sub-sequence in which the borrowed control is changed
C21_BorrowedChanged ==
    /\ phase = "run"
    /\ \E sp \in cxSpans :
          /\ ip > sp.from /\ ip <= sp.to
          /\ bits[sp.borrowed] # bits0[sp.borrowed]

\* C22: the number of triples of controlledXGate(k) is 4 for 1 <= k <= 3 and
\* twice that of k-1 plus 2 for k > 3 (3*2^(k-2) - 2 for k >= 3); the number
\* of triples holding the Toffoli is 2 for k <= 3 and twice that of k-1 plus
\* 2 for k > 3 (2^(k-1) - 2 for k >= 3); and every gate acts on at most 3
\* qubits, which are pairwise distinct.
RECURSIVE Pow2(_)
Pow2(e) == IF e = 0 THEN 1 ELSE 2 * Pow2(e - 1)

ToffoliTriples(triples) == {m \in 1..Len(triples) : triples[m][1].kind = "Toffoli"}

C22_ExponentialSize ==
    (cxBuilt /\ numberControls >= 1) =>
        LET k == numberControls
            N == Len(cxTriples)
            T == Cardinality(ToffoliTriples(cxTriples))
            smaller == controlledXGate(k - 1, "").value[2].gatesAndTargets
        IN  /\ k <= 3 => N = 4 /\ T = 2
            /\ k > 3 =>
                  /\ N = 2 * Len(smaller) + 2
                  /\ T = 2 * Cardinality(ToffoliTriples(smaller)) + 2
            /\ k >= 3 =>
                  /\ N = 3 * Pow2(k - 2) - 2
                  /\ T = Pow2(k - 1) - 2
            /\ \A i \in ToffoliTriples(cxTriples) : cxTriples[i][1] = cx.value[1]
            /\ \A m \in 1..N :
                  /\ Len(cxTriples[m][2]) <= 3
                  /\ Cardinality(ListItems(cxTriples[m][2])) = Len(cxTriples[m][2])

C22_Witness ==
    /\ cxBuilt /\ numberControls = 5
    /\ Len(cxTriples) = 22
    /\ Cardinality(ToffoliTriples(cxTriples)) = 14

====
